---------------------------- MODULE Spec2Model ----------------------------
(***************************************************************************)
(* A model of wirewall.py: the WireWallMonitor class, which fetches a      *)
(* WireWall dataset from an ERDDAP server, derives the per-event columns,  *)
(* and plots window variables and event variables.                         *)
(*                                                                         *)
(* Conventions of the model                                                *)
(*  - a string the code takes apart (a column name, an axis title) is a    *)
(*    sequence of one-character strings;                                   *)
(*  - a nullable cell (NaN / NaT / None) is the empty sequence, a present  *)
(*    value v is <<v>>;                                                    *)
(*  - datetimes and timedeltas are integers, in microseconds;              *)
(*  - a dataframe is its sequence of rows; a row is a record of its cells. *)
(*    The pass-through columns of a dataset carry no values in the model,  *)
(*    only their names (RawColumns);                                       *)
(*  - line 56 builds the timedelta column with Series.apply, which infers  *)
(*    the dtype of its result from the values. From NaT alone (no row has  *)
(*    both sample counters) pandas' inference gives datetime64, and then   *)
(*    line 71 adds a datetime column to a datetime column, which raises    *)
(*    TypeError. The inferred dtype is the installed pandas' business, so  *)
(*    it is a value fixed when the program starts: all_nat_dtype.          *)
(***************************************************************************)
EXTENDS Integers, Sequences, FiniteSets, TLC

VARIABLES
    all_nat_dtype,               \* the dtype the installed pandas gives a Series
                                 \* built from NaT alone (line 56)
    constraints,                 \* the constructor's constraints argument
    erddap_dataset_id,           \* self._erddap.dataset_id
    erddap_constraints,          \* self._erddap.constraints
    entry_dataset_id,            \* history: self._erddap.dataset_id when the
                                 \* running call began
    pc,                          \* position of the running call
    args,                        \* plot_variables' list arguments as passed
    dataset_id,                  \* plot_variables argument
    window_variables,            \* plot_variables argument, after line 197
    window_variables_secondary,  \* plot_variables argument, after line 198
    event_variables,             \* plot_variables argument, after line 201
    df,                          \* the dataframe local to the call
    window_df,                   \* the frame plotted by _plot_window_variables
    event_df,                    \* the frame plotted by _plot_event_variables
    window_figs,                 \* return value of _plot_window_variables
    event_figs,                  \* return value of _plot_event_variables
    figs,                        \* plot_variables' list of figures
    shown,                       \* the figures .show() was called on, in order
    result,                      \* how the call ended: returned list or error
    warnings,                    \* the warnings emitted by warn()
    requests,                    \* the queries to_pandas sent to the server
    log                          \* the calls made on collaborators, in order

vars ==
    <<all_nat_dtype, constraints, erddap_dataset_id, erddap_constraints, entry_dataset_id, pc,
      args, dataset_id,
      window_variables, window_variables_secondary, event_variables, df,
      window_df, event_df, window_figs, event_figs, figs, shown, result,
      warnings, requests, log>>

---------------------------------------------------------------------------
(* Bounds of the model *)

\* longest table drawn for the view specification
MaxRows == 3
\* longest table drawn for the derivation inputs with every sample case
MaxDeriveRows == 2
\* longest window_variables / window_variables_secondary list of a call
MaxVars == 2

---------------------------------------------------------------------------
(* Nullable cells *)

None == <<>>
NaN == <<>>
NaT == <<>>
Val(v) == <<v>>
IsNull(c) == c = <<>>
Get(c) == c[1]

SetMax(S) == CHOOSE m \in S : \A x \in S : x <= m
SetMin(S) == CHOOSE m \in S : \A x \in S : m <= x

---------------------------------------------------------------------------
(* Column names *)

\* "time (UTC)"
window_time_column ==
    <<"t", "i", "m", "e", " ", "(", "U", "T", "C", ")">>
\* "event time (UTC)"
event_time_column ==
    <<"e", "v", "e", "n", "t", " ", "t", "i", "m", "e", " ", "(", "U", "T", "C", ")">>
\* "wireID (Dmnless)"
series_column ==
    <<"w", "i", "r", "e", "I", "D", " ", "(", "D", "m", "n", "l", "e", "s", "s", ")">>
\* "sampleNUM (Dmnless)"
SAMPLE_NUM_COLUMN ==
    <<"s", "a", "m", "p", "l", "e", "N", "U", "M", " ", "(", "D", "m", "n", "l", "e", "s", "s", ")">>
\* "sampleNUM10 (Dmnless)"
SAMPLE_NUM10_COLUMN ==
    <<"s", "a", "m", "p", "l", "e", "N", "U", "M", "1", "0", " ", "(", "D", "m", "n", "l", "e", "s", "s", ")">>
\* "elMEAN (cm)"
EL_MEAN_COLUMN ==
    <<"e", "l", "M", "E", "A", "N", " ", "(", "c", "m", ")">>
\* "MEDelMEAN (cm)"
MED_EL_MEAN_COLUMN ==
    <<"M", "E", "D", "e", "l", "M", "E", "A", "N", " ", "(", "c", "m", ")">>
\* "elPTILE_6 (cm)"
EL_PTILE_COLUMN ==
    <<"e", "l", "P", "T", "I", "L", "E", "_", "6", " ", "(", "c", "m", ")">>
\* "MEDelPTILE_2 (cm)"
MED_EL_PTILE_COLUMN ==
    <<"M", "E", "D", "e", "l", "P", "T", "I", "L", "E", "_", "2", " ", "(", "c", "m", ")">>
\* "event depth preferred (cm)"
DEPTH_PREFERRED_COLUMN ==
    <<"e", "v", "e", "n", "t", " ", "d", "e", "p", "t", "h", " ", "p", "r", "e", "f", "e", "r", "r", "e", "d", " ", "(", "c", "m", ")">>
\* "event depth fallback (cm)"
DEPTH_FALLBACK_COLUMN ==
    <<"e", "v", "e", "n", "t", " ", "d", "e", "p", "t", "h", " ", "f", "a", "l", "l", "b", "a", "c", "k", " ", "(", "c", "m", ")">>

\* pass-through columns of the datasets, and names no dataset has
\* "a (cm)"
COL_A_CM ==
    <<"a", " ", "(", "c", "m", ")">>
\* "b (m)"
COL_B_M ==
    <<"b", " ", "(", "m", ")">>
\* "c (cm)"
COL_C_CM ==
    <<"c", " ", "(", "c", "m", ")">>
\* "n": a column whose name has no unit
COL_N ==
    <<"n">>
\* "zz (cm)": not a column
COL_ZZ_CM ==
    <<"z", "z", " ", "(", "c", "m", ")">>

\* the columns of the csv the server sends
RawColumns ==
    {window_time_column, series_column, SAMPLE_NUM_COLUMN, SAMPLE_NUM10_COLUMN,
     EL_MEAN_COLUMN, MED_EL_MEAN_COLUMN, EL_PTILE_COLUMN, MED_EL_PTILE_COLUMN,
     COL_A_CM, COL_B_M, COL_C_CM, COL_N}

\* lines 46, 47 and 49 add three columns to the frame
AugmentedColumns ==
    RawColumns \cup {DEPTH_PREFERRED_COLUMN, DEPTH_FALLBACK_COLUMN, event_time_column}

---------------------------------------------------------------------------
(* _add_event_columns *)

\* line 53: events occur at ~400Hz
SAMPLE_RATE == 400
\* line 56: pd.to_timedelta(..., unit="S"); timedeltas are kept in microseconds
MICROS_PER_SECOND == 1000000
\* line 59: pd.to_timedelta("10m"), and line 65: pd.to_timedelta("0m")
WINDOW_END_MINUTES == 10
WINDOW_START_MINUTES == 0
SECONDS_PER_MINUTE == 60
Minutes(m) == m * SECONDS_PER_MINUTE * MICROS_PER_SECOND
WindowEnd == Minutes(WINDOW_END_MINUTES)
WindowStart == Minutes(WINDOW_START_MINUTES)

\* lines 46-47: a difference of two float columns; NaN when either is NaN
Subtract(a, b) ==
    IF IsNull(a) \/ IsNull(b) THEN NaN ELSE Val(Get(a) - Get(b))

\* lines 50-56: sample ticks / 400 taken as seconds, made a timedelta.
\* One tick is 1/400 s = 2500 microseconds, which the conversion keeps exactly.
ToTimedelta(ticks) ==
    IF IsNull(ticks) THEN NaT
    ELSE Val(Get(ticks) * (MICROS_PER_SECOND \div SAMPLE_RATE))

\* a slip: the counter at the window's start not subtracted on line 50
TimeDelta_FromZero(row) ==
    ToTimedelta(Subtract(row.sampleNUM, Subtract(row.sampleNUM10, row.sampleNUM10)))

\* lines 50-56
TimeDelta(row) ==
    ToTimedelta(Subtract(row.sampleNUM, row.sampleNUM10))

\* a slip: line 49 run only when the frame has no event time column yet
EventTimeBase_KeepColumn(row) ==
    IF "event_time" \in DOMAIN row /\ ~IsNull(row.event_time)
    THEN Get(row.event_time)
    ELSE row.time

\* line 49: the event time column starts as a copy of the window time column
EventTimeBase(row) ==
    row.time

\* line 71: datetime + timedelta, NaT when the timedelta is NaT
AddTimedelta(t, delta) ==
    IF IsNull(delta) THEN NaT ELSE Val(t + Get(delta))

\* the row after lines 46-49 and 71
AugmentedRow(row) ==
    [time |-> row.time,
     wireID |-> row.wireID,
     sampleNUM |-> row.sampleNUM,
     sampleNUM10 |-> row.sampleNUM10,
     elMEAN |-> row.elMEAN,
     MEDelMEAN |-> row.MEDelMEAN,
     elPTILE_6 |-> row.elPTILE_6,
     MEDelPTILE_2 |-> row.MEDelPTILE_2,
     depth_preferred |-> Subtract(row.elMEAN, row.MEDelMEAN),
     depth_fallback |-> Subtract(row.elPTILE_6, row.MEDelPTILE_2),
     event_time |-> AddTimedelta(EventTimeBase(row), TimeDelta(row))]

\* Series.max() and Series.min() skip NaT; they are NaT when nothing is left
PresentDeltas(frame) ==
    {Get(TimeDelta(frame[i])) : i \in {j \in DOMAIN frame : ~IsNull(TimeDelta(frame[j]))}}

\* line 59; a comparison with NaT is False
AfterWindow(frame) ==
    /\ PresentDeltas(frame) # {}
    /\ SetMax(PresentDeltas(frame)) > WindowEnd

\* line 65
BeforeWindow(frame) ==
    /\ PresentDeltas(frame) # {}
    /\ SetMin(PresentDeltas(frame)) < WindowStart

AFTER_WARNING == "Data has an event that occurs after the 10min sample window."
BEFORE_WARNING == "Data has an event that occurs before the 10min sample window."

\* lines 58-69: the warnings of one derivation, in the order they are emitted
EventWarnings(frame) ==
    (IF AfterWindow(frame) THEN <<AFTER_WARNING>> ELSE <<>>)
        \o (IF BeforeWindow(frame) THEN <<BEFORE_WARNING>> ELSE <<>>)

\* lines 43-71: the frame is updated in place; nothing is returned
AddEventColumns(frame) ==
    [i \in DOMAIN frame |-> AugmentedRow(frame[i])]

\* the dtypes a Series built from NaT alone can be given
AllNatDtypes == {"datetime64[ns]", "timedelta64[ns]"}

\* line 71 raises TypeError when time_delta is a datetime column: it has no
\* value but NaT, and the dtype inferred for it on line 56 is datetime64
AddEventColumnsRaises(frame, dtype) ==
    PresentDeltas(frame) = {} /\ dtype = "datetime64[ns]"

\* the frame when line 71 raised: lines 46-49 have updated it
PartlyAugmented(frame) ==
    [i \in DOMAIN frame |->
        [AugmentedRow(frame[i]) EXCEPT !.event_time = Val(EventTimeBase(frame[i]))]]

---------------------------------------------------------------------------
(* The views of _plot_window_variables and _plot_event_variables *)

\* line 102: the subset of columns compared by drop_duplicates
DuplicateKey(row) ==
    <<row.time, row.wireID>>

\* a slip: keep="last"
KeptByDropDuplicates_KeepLast(frame, i) ==
    \A j \in (i + 1)..Len(frame) : DuplicateKey(frame[j]) # DuplicateKey(frame[i])

\* lines 101-103, keep="first": is row i the one kept for its key?
KeptByDropDuplicates(frame, i) ==
    \A j \in 1..(i - 1) : DuplicateKey(frame[j]) # DuplicateKey(frame[i])

RECURSIVE SelectRows(_, _, _)
\* the rows of frame at the positions i..Len(frame) that are in kept, in order
SelectRows(frame, i, kept) ==
    IF i > Len(frame) THEN <<>>
    ELSE (IF i \in kept THEN <<frame[i]>> ELSE <<>>)
             \o SelectRows(frame, i + 1, kept)

\* lines 101-103
DropDuplicates(frame) ==
    SelectRows(frame, 1, {i \in DOMAIN frame : KeptByDropDuplicates(frame, i)})

\* line 169: dropna(subset=[event_time_column]) keeps the rows with an event time
KeptByDropNa(frame, i) ==
    ~IsNull(frame[i].event_time)

\* line 169
DropNa(frame) ==
    SelectRows(frame, 1, {i \in DOMAIN frame : KeptByDropNa(frame, i)})

\* a slip: line 101 rebinding the name line 207 passes on
EventSource_Deduplicated(full, deduplicated) ==
    deduplicated

\* line 207: the frame _plot_event_variables is given is plot_variables' df,
\* which line 101 did not rebind (it rebinds _plot_window_variables' own name)
EventSource(full, deduplicated) ==
    full

---------------------------------------------------------------------------
(* Tables: what to_pandas can return, after line 78 made the series a string *)

\* window start times: two consecutive ten-minute windows
WindowTimes == {0, WindowEnd}

\* (sampleNUM, sampleNUM10): no event; one counter absent; an event 10 s into
\* the window; 11 min after its start; 1 s before it; exactly at its end;
\* exactly at its start
SampleCases ==
    {<<NaN, NaN>>, <<Val(4000), NaN>>, <<NaN, Val(400)>>,
     <<Val(4400), Val(400)>>, <<Val(264000), Val(0)>>, <<Val(0), Val(400)>>,
     <<Val(240000), Val(0)>>, <<Val(400), Val(400)>>}

\* (elMEAN, MEDelMEAN, elPTILE_6, MEDelPTILE_2)
MeasurementCases ==
    {<<Val(7), Val(2), Val(9), Val(3)>>, <<NaN, Val(2), Val(9), NaN>>}

Row(t, wire, samples, measurements) ==
    [time |-> t,
     wireID |-> wire,
     sampleNUM |-> samples[1],
     sampleNUM10 |-> samples[2],
     elMEAN |-> measurements[1],
     MEDelMEAN |-> measurements[2],
     elPTILE_6 |-> measurements[3],
     MEDelPTILE_2 |-> measurements[4]]

\* rows of one wire with every sample and measurement case
DeriveRows ==
    {Row(t, "1", s, m) : t \in WindowTimes, s \in SampleCases, m \in MeasurementCases}

\* rows of three (window, wire) pairs, with no event or one of two events
ViewRows ==
    {Row(k[1], k[2], s, <<Val(7), Val(2), Val(9), Val(3)>>) :
        k \in {<<0, "1">>, <<0, "2">>, <<WindowEnd, "1">>},
        s \in {<<NaN, NaN>>, <<Val(4400), Val(400)>>, <<Val(264000), Val(0)>>}}

\* the non-empty sequences over S of at most n elements (ERDDAP answers a
\* query that matches no row with an error, not with an empty table)
SeqsUpTo(S, n) ==
    UNION {[1..k -> S] : k \in 1..n}

Tables ==
    SeqsUpTo(DeriveRows, MaxDeriveRows) \cup SeqsUpTo(ViewRows, MaxRows)

---------------------------------------------------------------------------
(* SpecTable: the data path of plot_variables on any table, with no         *)
(* variable to plot: lines 79, 101-103 and 169 in the order lines 203-207   *)
(* run them, and a second derivation on the augmented table.                *)

Unused == "unused"

TableInit ==
    /\ df \in Tables
    /\ all_nat_dtype \in AllNatDtypes
    /\ pc = "table_raw"
    /\ warnings = <<>>
    /\ window_df = None
    /\ event_df = None
    /\ window_figs = None
    /\ event_figs = None
    /\ constraints = Unused
    /\ erddap_dataset_id = Unused
    /\ erddap_constraints = Unused
    /\ dataset_id = Unused
    /\ entry_dataset_id = Unused
    /\ args = Unused
    /\ requests = <<>>
    /\ window_variables = <<>>
    /\ window_variables_secondary = <<>>
    /\ event_variables = <<>>
    /\ figs = None
    /\ shown = <<>>
    /\ result = ""
    /\ log = <<>>

tableFrame ==
    <<all_nat_dtype, constraints, erddap_dataset_id, erddap_constraints, entry_dataset_id, args,
      dataset_id,
      window_variables, window_variables_secondary, event_variables, figs,
      shown, requests, log>>

\* line 79: self._add_event_columns(df)
TableAddEventColumns ==
    /\ pc = "table_raw"
    /\ warnings' = warnings \o EventWarnings(df)
    /\ IF AddEventColumnsRaises(df, all_nat_dtype)
       THEN /\ df' = PartlyAugmented(df)
            /\ result' = "TypeError"
            /\ pc' = "table_failed"
       ELSE /\ df' = AddEventColumns(df)
            /\ result' = result
            /\ pc' = "table_augmented"
    /\ UNCHANGED <<window_df, event_df, window_figs, event_figs, tableFrame>>

\* _add_event_columns applied to the frame it has already augmented
TableAddEventColumnsAgain ==
    /\ pc = "table_augmented"
    /\ warnings' = warnings \o EventWarnings(df)
    /\ IF AddEventColumnsRaises(df, all_nat_dtype)
       THEN /\ df' = PartlyAugmented(df)
            /\ result' = "TypeError"
            /\ pc' = "table_failed"
       ELSE /\ df' = AddEventColumns(df)
            /\ result' = result
            /\ pc' = "table_augmented_twice"
    /\ UNCHANGED <<window_df, event_df, window_figs, event_figs, tableFrame>>

\* lines 204-206 with no window variable: lines 101-105 and 163
TablePlotWindowVariables ==
    /\ pc = "table_augmented"
    /\ window_df' = DropDuplicates(df)
    /\ window_figs' = <<>>
    /\ pc' = "table_window"
    /\ UNCHANGED <<df, warnings, result, event_df, event_figs, tableFrame>>

\* line 207 with no event variable: lines 169-171 and 177
TablePlotEventVariables ==
    /\ pc = "table_window"
    /\ event_df' = DropNa(EventSource(df, window_df))
    /\ event_figs' = <<>>
    /\ pc' = "table_event"
    /\ UNCHANGED <<df, warnings, result, window_df, window_figs, tableFrame>>

TableNext ==
    \/ TableAddEventColumns
    \/ TableAddEventColumnsAgain
    \/ TablePlotWindowVariables
    \/ TablePlotEventVariables

SpecTable == TableInit /\ [][TableNext]_vars

---------------------------------------------------------------------------
(* Claims about the derivation and the views *)

Range(s) == {s[i] : i \in DOMAIN s}

HasEvent(row) == ~IsNull(row.event_time)

\* the position in frame of the first row with the key of row
FirstPosition(frame, row) ==
    SetMin({i \in DOMAIN frame : DuplicateKey(frame[i]) = DuplicateKey(row)})

\* C3: the frame plotted by _plot_window_variables holds, for every (window
\* time, series id) pair of the augmented table, exactly one row; that row is
\* the first row of the augmented table with the pair; the kept rows are in
\* the order they have in the augmented table.
C3_WindowViewKeepsFirst ==
    pc \in {"table_window", "table_event"} =>
        /\ \A i \in DOMAIN df :
              Cardinality({k \in DOMAIN window_df :
                  DuplicateKey(window_df[k]) = DuplicateKey(df[i])}) = 1
        /\ \A k \in DOMAIN window_df :
              /\ \E i \in DOMAIN df : DuplicateKey(df[i]) = DuplicateKey(window_df[k])
              /\ window_df[k] = df[FirstPosition(df, window_df[k])]
        /\ \A k, l \in DOMAIN window_df :
              k < l => FirstPosition(df, window_df[k]) < FirstPosition(df, window_df[l])

\* a pair occurs twice, with different rows, around a row of another pair:
\* the first and the second row are kept
C3_Witness ==
    /\ pc = "table_window"
    /\ Len(df) = 3
    /\ Len(window_df) = 2
    /\ DuplicateKey(df[1]) # DuplicateKey(df[2])
    /\ DuplicateKey(df[3]) = DuplicateKey(df[1])
    /\ df[3] # df[1]

\* the positions of the rows of frame that have an event time
EventPositions(frame) == {i \in DOMAIN frame : HasEvent(frame[i])}

\* C4: the frame plotted by _plot_event_variables is the sequence of the rows
\* of the full augmented table whose event time is not null, in the original
\* order and with every column, although the window view was built before it.
C4_EventViewFromFullTable ==
    pc = "table_event" =>
        /\ Len(event_df) = Cardinality(EventPositions(df))
        /\ \A k \in DOMAIN event_df :
              \E i \in EventPositions(df) :
                  /\ Cardinality({j \in EventPositions(df) : j <= i}) = k
                  /\ event_df[k] = df[i]

\* the window view dropped a row that has an event, and the event view has it
C4_Witness ==
    /\ pc = "table_event"
    /\ \E i \in DOMAIN df :
          /\ HasEvent(df[i])
          /\ df[i] \notin Range(window_df)
          /\ df[i] \in Range(event_df)
    /\ \E i \in DOMAIN df : ~HasEvent(df[i])

\* the elapsed times stored in the augmented frame: event time less window
\* time, over the rows that have an event
StoredElapsed(frame) ==
    {Get(frame[i].event_time) - frame[i].time : i \in EventPositions(frame)}

\* the warnings of a derivation that returned are as the stored event times
\* tell: "after" exactly when the largest elapsed time is above 10 minutes,
\* "before" exactly when the smallest is below 0, each at most once, and the
\* out-of-range event times are stored as computed
WarningsAsStored ==
    /\ (AFTER_WARNING \in Range(warnings)) <=>
          (\E e \in StoredElapsed(df) : e > 10 * 60 * 1000000)
    /\ (BEFORE_WARNING \in Range(warnings)) <=>
          (\E e \in StoredElapsed(df) : e < 0)
    /\ Range(warnings) \subseteq {AFTER_WARNING, BEFORE_WARNING}
    /\ Len(warnings) = Cardinality(Range(warnings))
    /\ \A i \in DOMAIN df :
          ~IsNull(df[i].sampleNUM) /\ ~IsNull(df[i].sampleNUM10) =>
              /\ HasEvent(df[i])
              /\ (Get(df[i].sampleNUM) - Get(df[i].sampleNUM10) > 240000
                    => Get(df[i].event_time) > df[i].time + 10 * 60 * 1000000)
              /\ (Get(df[i].sampleNUM) - Get(df[i].sampleNUM10) < 0
                    => Get(df[i].event_time) < df[i].time)

\* the derivations that return satisfy WarningsAsStored
ReturnedDerivationWarns ==
    pc = "table_augmented" => WarningsAsStored

\* C5: the out-of-window check only reports and never fails. In every case,
\* a table with no event included, the derivation completes and no error is
\* raised; the "after" warning is emitted exactly when the largest elapsed
\* time is above 10 minutes, the "before" warning exactly when the smallest
\* is below 0 (none for a table with no events); the out-of-range event
\* times are stored as computed, not clamped.
C5_WarnOnlyOutOfWindow ==
    /\ pc # "table_failed"
    /\ pc \in {"table_augmented", "table_failed"} => WarningsAsStored

\* tables the derivation returned from: one has an event after the window
\* and one before it (both warnings), one has events exactly at the window's
\* start and end (no warning)
ReturnedWithBothWarnings ==
    /\ pc = "table_augmented"
    /\ warnings = <<AFTER_WARNING, BEFORE_WARNING>>
    /\ \E i \in DOMAIN df :
          HasEvent(df[i]) /\ Get(df[i].event_time) = df[i].time + 11 * 60 * 1000000

ReturnedWithNoWarning ==
    /\ pc = "table_augmented"
    /\ warnings = <<>>
    /\ StoredElapsed(df) = {0, 10 * 60 * 1000000}

C8_DerivationIdempotent ==
    [][pc = "table_augmented" /\ pc' = "table_augmented_twice" => df' = df]_vars

\* the derivation ran twice on a table with an event of a non-zero offset
\* and a row with a null depth
C8_Witness ==
    /\ pc = "table_augmented_twice"
    /\ \E i \in DOMAIN df :
          HasEvent(df[i]) /\ Get(df[i].event_time) # df[i].time
    /\ \E i \in DOMAIN df : IsNull(df[i].depth_preferred)
    /\ \E i \in DOMAIN df : df[i].depth_fallback = Val(6)

---------------------------------------------------------------------------
(* Strings *)

\* " "
SPACE == " "
\* "value "
VALUE_PREFIX ==
    <<"v", "a", "l", "u", "e", " ">>
\* " or "
OR_SEPARATOR ==
    <<" ", "o", "r", " ">>

RECURSIVE Split(_)
\* str.split(" "): the parts of s between its spaces, empty parts included
Split(s) ==
    IF \A i \in DOMAIN s : s[i] # SPACE THEN <<s>>
    ELSE LET i == SetMin({j \in DOMAIN s : s[j] = SPACE})
         IN <<SubSeq(s, 1, i - 1)>> \o Split(SubSeq(s, i + 1, Len(s)))

RECURSIVE Join(_, _)
\* sep.join(parts)
Join(parts, sep) ==
    IF Len(parts) = 0 THEN <<>>
    ELSE IF Len(parts) = 1 THEN parts[1]
    ELSE parts[1] \o sep \o Join(Tail(parts), sep)

\* the orders in which iterating a set of strings can give its elements (the
\* order of a Python set of strings follows the process's string hashing)
Iterations(S) ==
    {p \in [1..Cardinality(S) -> S] : \A i, j \in DOMAIN p : i # j => p[i] # p[j]}

---------------------------------------------------------------------------
(* Figures *)

\* A figure: the column of its x values, the columns of its y traces in the
\* order the traces were added, and its axis titles.
Figure(x, ys, yaxis_title, xaxis_title) ==
    [x |-> x, ys |-> ys, yaxis_title |-> yaxis_title, xaxis_title |-> xaxis_title]

\* how composing a chart ends: with a figure, or with an exception
Composed(fig) == [error |-> "", fig |-> Val(fig)]
Raised(error) == [error |-> error, fig |-> None]

\* lines 85-95: px.scatter raises ValueError for a y that is no column of the
\* frame; it labels the x axis with the x column, line 90 the y axis with y
PlotDataframe(columns, x, y) ==
    IF y \in columns THEN Composed(Figure(x, <<y>>, y, x))
    ELSE Raised("ValueError")

\* line 125: s.split(" ")[1]
HasUnit(s) == Len(Split(s)) >= 2

\* a slip: the brackets around the unit stripped
Unit_NoBrackets(s) ==
    SelectSeq(Split(s)[2], LAMBDA ch : ch \notin {"(", ")"})

Unit(s) ==
    Split(s)[2]

\* lines 125-126: the titles "value " + " or ".join(units) can be
YAxisTitles(name, name_secondary) ==
    {VALUE_PREFIX \o Join(p, OR_SEPARATOR) :
        p \in Iterations({Unit(name), Unit(name_secondary)})}

\* lines 111-159: the ways the loop body can end for one pair of names
WindowChart(columns, name, name_secondary) ==
    LET subfig1 == PlotDataframe(columns, window_time_column, name)
        subfig2 == PlotDataframe(columns, window_time_column, name_secondary)
    IN IF subfig1.error # "" THEN {subfig1}
       ELSE IF name_secondary = None
       THEN {Composed(Figure(window_time_column, <<name>>, name, window_time_column))}
       ELSE IF ~HasUnit(name) \/ ~HasUnit(name_secondary) THEN {Raised("IndexError")}
       ELSE IF subfig2.error # "" THEN {subfig2}
       ELSE {Composed(Figure(window_time_column, <<name, name_secondary>>, t,
                             window_time_column)) :
                t \in YAxisTitles(name, name_secondary)}

\* the plotting calls one pass of the loop body makes, the raising one included
WindowChartCalls(columns, name, name_secondary) ==
    <<"px.scatter">>
        \o (IF name \in columns /\ name_secondary # None
            THEN <<"make_subplots">> ELSE <<>>)
        \o (IF name \in columns /\ name_secondary # None
               /\ HasUnit(name) /\ HasUnit(name_secondary)
            THEN <<"px.scatter">> ELSE <<>>)

Min(a, b) == IF a <= b THEN a ELSE b

\* the first position of outcomes whose outcome is an exception, 0 if none
FirstRaised(outcomes) ==
    IF \E i \in DOMAIN outcomes : outcomes[i].error # ""
    THEN SetMin({i \in DOMAIN outcomes : outcomes[i].error # ""})
    ELSE 0

RECURSIVE Concat(_)
Concat(seqs) ==
    IF Len(seqs) = 0 THEN <<>> ELSE Head(seqs) \o Concat(Tail(seqs))

\* lines 108-110: zip pairs the names up to the shorter list
Zipped(column_names, column_names_secondary) ==
    Min(Len(column_names), Len(column_names_secondary))

\* lines 97-163: the ways _plot_window_variables can end. figs has one entry
\* per column name (line 105), None where the loop did not reach; error is the
\* exception that ended the loop, "" when it ran through; calls are the
\* plotting calls made.
PlotWindowVariables(columns, column_names, column_names_secondary) ==
    LET k == Zipped(column_names, column_names_secondary)
        ways == [i \in 1..k |->
                    WindowChart(columns, column_names[i], column_names_secondary[i])]
    IN {[figs |-> [i \in 1..Len(column_names) |->
                      IF i <= k /\ (FirstRaised(chosen) = 0 \/ i < FirstRaised(chosen))
                      THEN chosen[i].fig ELSE None],
         error |-> IF FirstRaised(chosen) = 0 THEN ""
                   ELSE chosen[FirstRaised(chosen)].error,
         calls |-> Concat([i \in 1..(IF FirstRaised(chosen) = 0 THEN k
                                     ELSE FirstRaised(chosen)) |->
                      WindowChartCalls(columns, column_names[i],
                                       column_names_secondary[i])])] :
           chosen \in {c \in [1..k -> UNION {ways[i] : i \in 1..k}] :
                          \A i \in 1..k : c[i] \in ways[i]}}

\* lines 165-177
PlotEventVariables(columns, column_names) ==
    LET outcomes == [i \in DOMAIN column_names |->
                        PlotDataframe(columns, event_time_column, column_names[i])]
        e == FirstRaised(outcomes)
    IN [figs |-> [i \in DOMAIN column_names |->
                     IF e = 0 \/ i < e THEN outcomes[i].fig ELSE None],
        error |-> IF e = 0 THEN "" ELSE outcomes[e].error,
        calls |-> [i \in 1..(IF e = 0 THEN Len(column_names) ELSE e) |-> "px.scatter"]]

\* a slip: the event figures first
FigsList_EventsFirst(w_figs, e_figs) ==
    e_figs \o w_figs

\* line 209
FigsList(w_figs, e_figs) ==
    w_figs \o e_figs

---------------------------------------------------------------------------
(* SpecChart: _plot_window_variables on any pair of names, and on the lists *)
(* of the documented example.                                              *)

\* names with a unit, without one, with several spaces, and no column at all
ChartNames ==
    {COL_A_CM, COL_B_M, COL_N, COL_ZZ_CM, DEPTH_PREFERRED_COLUMN, EL_MEAN_COLUMN,
     series_column}
ChartSecondaryNames ==
    {None, COL_C_CM, COL_B_M, COL_N, COL_ZZ_CM, DEPTH_FALLBACK_COLUMN,
     MED_EL_MEAN_COLUMN, series_column}

\* the (column_names, column_names_secondary) the function is applied to
ChartInputs ==
    {<<<<n>>, <<s>>>> : n \in ChartNames, s \in ChartSecondaryNames}
        \cup {<<<<COL_A_CM, COL_B_M>>, <<COL_C_CM, None>>>>}

ChartInit ==
    /\ \E input \in ChartInputs :
          /\ window_variables = input[1]
          /\ window_variables_secondary = input[2]
    /\ pc = "chart_call"
    /\ window_figs = None
    /\ result = [status |-> "none", error |-> "", value |-> <<>>]
    /\ log = <<>>
    /\ all_nat_dtype = Unused
    /\ df = Unused
    /\ window_df = Unused
    /\ event_df = Unused
    /\ event_figs = None
    /\ constraints = Unused
    /\ erddap_dataset_id = Unused
    /\ erddap_constraints = Unused
    /\ entry_dataset_id = Unused
    /\ dataset_id = Unused
    /\ args = Unused
    /\ event_variables = <<>>
    /\ figs = None
    /\ shown = <<>>
    /\ warnings = <<>>
    /\ requests = <<>>

\* lines 105-163 on a frame that has the columns of an augmented dataset
ChartPlotWindowVariables ==
    /\ pc = "chart_call"
    /\ \E way \in PlotWindowVariables(AugmentedColumns, window_variables,
                                      window_variables_secondary) :
          /\ log' = log \o way.calls
          /\ IF way.error # ""
             THEN /\ result' = [status |-> "raised", error |-> way.error, value |-> <<>>]
                  /\ UNCHANGED window_figs
             ELSE /\ window_figs' = way.figs
                  /\ result' = [status |-> "returned", error |-> "", value |-> way.figs]
    /\ pc' = "chart_done"
    /\ UNCHANGED <<all_nat_dtype, constraints, erddap_dataset_id,
                   erddap_constraints, entry_dataset_id, args, dataset_id, window_variables,
                   window_variables_secondary, event_variables, df, window_df,
                   event_df, event_figs, figs, shown, warnings, requests>>

ChartNext ==
    ChartPlotWindowVariables

SpecChart == ChartInit /\ [][ChartNext]_vars

---------------------------------------------------------------------------
(* The ERDDAP server and client *)

FullMeasurements == <<Val(7), Val(2), Val(9), Val(3)>>

\* The datasets of the server, as the rows of their csv (the series is a
\* number there). "ds1": two windows of two wires; wire 1 has two rows in the
\* first window, each with an event, the second after the window's end.
\* "ds2": wire 2 alone, in two windows with no event: a monitor constrained
\* to wire 1 finds no row in it. Any other id is unknown to the server.
DatasetIds == {"ds1", "ds2"}

Server(id) ==
    IF id = "ds1"
    THEN <<Row(0, 1, <<Val(4400), Val(400)>>, FullMeasurements),
           Row(0, 2, <<NaN, NaN>>, FullMeasurements),
           Row(0, 1, <<Val(264000), Val(0)>>, FullMeasurements),
           Row(WindowEnd, 1, <<NaN, NaN>>, FullMeasurements),
           Row(WindowEnd, 2, <<NaN, NaN>>, <<NaN, Val(2), Val(9), Val(3)>>)>>
    ELSE IF id = "ds2"
    THEN <<Row(0, 2, <<NaN, NaN>>, FullMeasurements),
           Row(WindowEnd, 2, <<NaN, Val(400)>>, FullMeasurements)>>
    ELSE <<>>

\* the constraints a monitor can be constructed with: none, or wire 1 only
ConstraintChoices == {None, Val(<<[variable |-> "wireID", value |-> 1]>>)}

\* line 41: constraints or []
ConstraintsOrEmpty(c) ==
    IF IsNull(c) \/ Len(Get(c)) = 0 THEN <<>> ELSE Get(c)

Matches(row, query) ==
    \A i \in DOMAIN query : row.wireID = query[i].value

\* line 77: the rows of the client's current dataset that match the client's
\* constraints. The server answers an unknown dataset, and a query no row
\* matches, with an error, which to_pandas raises.
ToPandas(current_dataset_id, query) ==
    LET rows == SelectRows(Server(Get(current_dataset_id)), 1,
                    {i \in DOMAIN Server(Get(current_dataset_id)) :
                        Matches(Server(Get(current_dataset_id))[i], query)})
    IN IF Len(rows) = 0 THEN [error |-> "HTTPError", df |-> None]
       ELSE [error |-> "", df |-> rows]

Digits == <<"0", "1", "2", "3", "4", "5", "6", "7", "8", "9">>

\* line 78: astype(str) on the series column
AsTypeStr(frame) ==
    [i \in DOMAIN frame |-> [frame[i] EXCEPT !.wireID = Digits[frame[i].wireID + 1]]]

\* a slip: the dataset set only when the client has none
SelectDataset_KeepCurrent(current_dataset_id, requested) ==
    IF IsNull(current_dataset_id) THEN Val(requested) ELSE current_dataset_id

\* line 75: the client's current dataset becomes the requested one
SelectDataset(current_dataset_id, requested) ==
    Val(requested)

---------------------------------------------------------------------------
(* plot_variables *)

\* the lists over S of at most n elements
ListsUpTo(S, n) ==
    UNION {[1..k -> S] : k \in 0..n}

\* the names the calls of plot_variables are drawn from: columns of the
\* datasets, and a name that is no column
WindowNames == {COL_A_CM, COL_B_M, COL_ZZ_CM}
SecondaryNames == {None, COL_C_CM, COL_ZZ_CM}
EventNames == {DEPTH_PREFERRED_COLUMN, COL_ZZ_CM}

\* an optional list: not passed (None), or the list passed
Optional(lists) == {None} \cup {Val(l) : l \in lists}

\* lines 197-201: x or default
OrDefault(arg, default) ==
    IF IsNull(arg) \/ Len(Get(arg)) = 0 THEN default ELSE Get(arg)

NoResult == [status |-> "none", error |-> "", value |-> <<>>]
ReturnValue(v) == [status |-> "returned", error |-> "", value |-> v]
Exception(e) == [status |-> "raised", error |-> e, value |-> <<>>]

\* lines 31-41
Init ==
    /\ all_nat_dtype \in AllNatDtypes
    /\ constraints \in ConstraintChoices
    /\ erddap_constraints = ConstraintsOrEmpty(constraints)
    /\ erddap_dataset_id = None
    /\ entry_dataset_id = None
    /\ pc = "idle"
    /\ args = [window_variables |-> None, window_variables_secondary |-> None,
               event_variables |-> None]
    /\ dataset_id = "ds1"
    /\ window_variables = <<>>
    /\ window_variables_secondary = <<>>
    /\ event_variables = <<>>
    /\ df = None
    /\ window_df = None
    /\ event_df = None
    /\ window_figs = None
    /\ event_figs = None
    /\ figs = None
    /\ shown = <<>>
    /\ result = NoResult
    /\ warnings = <<>>
    /\ requests = <<>>
    /\ log = <<>>

environment == <<all_nat_dtype>>
monitor == <<constraints, erddap_dataset_id, erddap_constraints, environment>>
arguments ==
    <<args, dataset_id, window_variables, window_variables_secondary,
      event_variables, entry_dataset_id>>
locals == <<df, window_df, event_df, window_figs, event_figs, figs>>
observed == <<shown, result, warnings, requests, log>>

\* lines 179-201: a call of plot_variables binds its arguments
PlotVariablesCall ==
    /\ pc = "idle"
    /\ \E id \in DatasetIds,
          w \in Optional(ListsUpTo(WindowNames, MaxVars)),
          s \in Optional(ListsUpTo(SecondaryNames, MaxVars)),
          e \in Optional(ListsUpTo(EventNames, MaxVars - 1)) :
          /\ dataset_id' = id
          /\ args' = [window_variables |-> w, window_variables_secondary |-> s,
                      event_variables |-> e]
          /\ window_variables' = OrDefault(w, <<>>)
          /\ window_variables_secondary' =
                OrDefault(s, [i \in 1..Len(OrDefault(w, <<>>)) |-> None])
          /\ event_variables' = OrDefault(e, <<>>)
    /\ entry_dataset_id' = erddap_dataset_id
    /\ pc' = "get_dataframe"
    /\ UNCHANGED <<monitor, locals, observed>>

\* lines 203 and 73-83
GetDataframe ==
    /\ pc = "get_dataframe"
    /\ LET current == SelectDataset(erddap_dataset_id, dataset_id)
           fetched == ToPandas(current, erddap_constraints)
       IN /\ requests' = Append(requests, [dataset_id |-> Get(current),
                                           constraints |-> erddap_constraints])
          /\ IF fetched.error # ""
             THEN /\ erddap_dataset_id' = current
                  /\ result' = Exception(fetched.error)
                  /\ log' = log \o <<"to_pandas">>
                  /\ pc' = "done"
                  /\ UNCHANGED <<df, warnings>>
             ELSE /\ warnings' = warnings \o EventWarnings(AsTypeStr(fetched.df))
                  /\ log' = log \o <<"to_pandas", "_add_event_columns">>
                  /\ IF AddEventColumnsRaises(AsTypeStr(fetched.df), all_nat_dtype)
                     THEN /\ erddap_dataset_id' = current
                          /\ result' = Exception("TypeError")
                          /\ pc' = "done"
                          /\ UNCHANGED df
                     ELSE /\ df' = AddEventColumns(AsTypeStr(fetched.df))
                          /\ erddap_dataset_id' = None
                          /\ pc' = "plot_window_variables"
                          /\ UNCHANGED result
    /\ UNCHANGED <<environment, constraints, erddap_constraints, arguments, window_df, event_df,
                   window_figs, event_figs, figs, shown>>

\* lines 204-206 and 97-163
PlotWindowVariablesStep ==
    /\ pc = "plot_window_variables"
    /\ window_df' = DropDuplicates(df)
    /\ \E way \in PlotWindowVariables(AugmentedColumns, window_variables,
                                      window_variables_secondary) :
          /\ log' = log \o way.calls
          /\ IF way.error # ""
             THEN /\ result' = Exception(way.error)
                  /\ pc' = "done"
                  /\ UNCHANGED window_figs
             ELSE /\ window_figs' = way.figs
                  /\ pc' = "plot_event_variables"
                  /\ UNCHANGED result
    /\ UNCHANGED <<monitor, arguments, df, event_df, event_figs, figs, shown,
                   warnings, requests>>

\* lines 207-209 and 165-177
PlotEventVariablesStep ==
    /\ pc = "plot_event_variables"
    /\ event_df' = DropNa(EventSource(df, window_df))
    /\ LET way == PlotEventVariables(AugmentedColumns, event_variables)
       IN /\ log' = log \o way.calls
          /\ IF way.error # ""
             THEN /\ result' = Exception(way.error)
                  /\ pc' = "done"
                  /\ UNCHANGED <<event_figs, figs>>
             ELSE /\ event_figs' = way.figs
                  /\ figs' = FigsList(window_figs, way.figs)
                  /\ pc' = "show"
                  /\ UNCHANGED result
    /\ UNCHANGED <<monitor, arguments, df, window_df, window_figs, shown,
                   warnings, requests>>

\* lines 211-212: one pass of the loop on a figure
ShowFigure ==
    /\ pc = "show"
    /\ Len(shown) < Len(figs)
    /\ ~IsNull(figs[Len(shown) + 1])
    /\ shown' = Append(shown, figs[Len(shown) + 1])
    /\ log' = Append(log, "show")
    /\ UNCHANGED <<monitor, arguments, pc, df, window_df, event_df, window_figs,
                   event_figs, figs, result, warnings, requests>>

\* lines 211-212: one pass of the loop on an entry line 105 left None
ShowNone ==
    /\ pc = "show"
    /\ Len(shown) < Len(figs)
    /\ IsNull(figs[Len(shown) + 1])
    /\ result' = Exception("AttributeError")
    /\ pc' = "done"
    /\ UNCHANGED <<monitor, arguments, df, window_df, event_df, window_figs,
                   event_figs, figs, shown, warnings, requests, log>>

\* line 214
Return ==
    /\ pc = "show"
    /\ Len(shown) = Len(figs)
    /\ result' = ReturnValue(figs)
    /\ pc' = "done"
    /\ UNCHANGED <<monitor, arguments, df, window_df, event_df, window_figs,
                   event_figs, figs, shown, warnings, requests, log>>

\* The call is over: its frame is gone, and with it the arguments and the
\* locals; the monitor object is all that is left for the next call.
CallEnds ==
    /\ pc = "done"
    /\ pc' = "idle"
    /\ entry_dataset_id' = None
    /\ args' = [window_variables |-> None, window_variables_secondary |-> None,
                event_variables |-> None]
    /\ dataset_id' = "ds1"
    /\ window_variables' = <<>>
    /\ window_variables_secondary' = <<>>
    /\ event_variables' = <<>>
    /\ df' = None
    /\ window_df' = None
    /\ event_df' = None
    /\ window_figs' = None
    /\ event_figs' = None
    /\ figs' = None
    /\ shown' = <<>>
    /\ result' = NoResult
    /\ warnings' = <<>>
    /\ requests' = <<>>
    /\ log' = <<>>
    /\ UNCHANGED monitor

Next ==
    \/ PlotVariablesCall
    \/ GetDataframe
    \/ PlotWindowVariablesStep
    \/ PlotEventVariablesStep
    \/ ShowFigure
    \/ ShowNone
    \/ Return
    \/ CallEnds

Spec == Init /\ [][Next]_vars

---------------------------------------------------------------------------
(* Claims about plot_variables *)

Ended == pc = "done"
Returned == pc = "done" /\ result.status = "returned"

\* the number of entries of the log that are in ops
Count(ops) == Cardinality({i \in DOMAIN log : log[i] \in ops})

\* C1: a call given a window_variables_secondary whose length is not that of
\* window_variables ends in an error: it returns no list and shows no figure.
C1_LengthMismatchIsFatal ==
    (/\ Ended
     /\ ~IsNull(args.window_variables_secondary)
     /\ Len(Get(args.window_variables_secondary)) # Len(window_variables))
        => result.status = "raised" /\ shown = <<>>

\* C2: a call that returns fetched the table once and derived the events
\* once, both before it composed any chart; the list it returns has one
\* figure per window variable, in their order, then one per event variable,
\* in their order; every figure of the list was shown once, in that order.
C2_FiguresInOrder ==
    Returned =>
        LET n == Len(window_variables)
            m == Len(event_variables)
            v == result.value
        IN /\ Len(requests) = 1
           /\ Count({"to_pandas"}) = 1
           /\ Count({"_add_event_columns"}) = 1
           /\ log[1] = "to_pandas"
           /\ log[2] = "_add_event_columns"
           /\ Len(v) = n + m
           /\ \A i \in 1..n :
                 /\ ~IsNull(v[i])
                 /\ Get(v[i]).x = window_time_column
                 /\ Get(v[i]).ys[1] = window_variables[i]
           /\ \A j \in 1..m :
                 /\ ~IsNull(v[n + j])
                 /\ Get(v[n + j]).x = event_time_column
                 /\ Get(v[n + j]).ys = <<event_variables[j]>>
           /\ shown = v
           /\ Count({"show"}) = n + m
           /\ \A i, j \in DOMAIN log :
                 log[i] = "show" /\ log[j] # "show" => j < i

\* a call returned two window figures, the first an overlay, and an event
\* figure
C2_Witness ==
    /\ Returned
    /\ Len(window_variables) = 2
    /\ Len(event_variables) = 1
    /\ window_variables[1] # window_variables[2]
    /\ Len(Get(result.value[1]).ys) = 2
    /\ Len(shown) = 3

\* the names a call was asked to plot
RequestedNames ==
    (Range(OrDefault(args.window_variables, <<>>))
        \cup Range(OrDefault(args.window_variables_secondary, <<>>))
        \cup Range(OrDefault(args.event_variables, <<>>))) \ {None}

\* C6: a call that asks for a name that is no column of the augmented table
\* ends in a lookup error (the ValueError of the plotting call, or the
\* IndexError of the unit lookup) and has shown no figure.
C6_MissingColumnIsFatal ==
    (/\ Ended
     /\ ~IsNull(df)
     /\ ~(RequestedNames \subseteq AugmentedColumns))
        => /\ result.status = "raised"
           /\ result.error \in {"ValueError", "IndexError"}
           /\ shown = <<>>

\* the part of s between its first space and the next one, or its end
SecondToken(s) ==
    LET first == SetMin({i \in DOMAIN s : s[i] = " "})
        ends == {j \in (first + 1)..Len(s) : s[j] = " "} \cup {Len(s) + 1}
    IN SubSeq(s, first + 1, SetMin(ends) - 1)

\* the part of s after its first space
AfterFirstSpace(s) ==
    SubSeq(s, SetMin({i \in DOMAIN s : s[i] = " "}) + 1, Len(s))

\* "value cm"
TITLE_VALUE_CM ==
    <<"v", "a", "l", "u", "e", " ", "c", "m">>
\* "value (cm)"
TITLE_VALUE_CM_BRACKETS ==
    <<"v", "a", "l", "u", "e", " ", "(", "c", "m", ")">>
\* "b"
TITLE_B ==
    <<"b">>
\* " or "
TITLE_OR ==
    <<" ", "o", "r", " ">>
\* "value "
TITLE_VALUE ==
    <<"v", "a", "l", "u", "e", " ">>

\* the window figures are composed
WindowFigsComposed ==
    pc \in {"chart_done", "plot_event_variables", "show", "done"}
        /\ ~IsNull(window_figs)

\* the titles the y axis of an overlay can have for the units u1 and u2
OverlayTitles(u1, u2) ==
    IF u1 = u2 THEN {TITLE_VALUE \o u1}
    ELSE {TITLE_VALUE \o u1 \o TITLE_OR \o u2, TITLE_VALUE \o u2 \o TITLE_OR \o u1}

RowsFor(id, c) ==
    LET query == IF IsNull(c) THEN <<>> ELSE Get(c)
        keep == {i \in DOMAIN Server(id) :
                    \A q \in Range(query) : Server(id)[i].wireID = q.value}
    IN [k \in 1..Cardinality(keep) |->
           Server(id)[CHOOSE i \in keep : Cardinality({j \in keep : j <= i}) = k]]

\* the derivation of the rows raises: none of them has both sample counters
\* and the time offsets, all NaT, were given a datetime dtype
DerivationFails(rows) ==
    /\ all_nat_dtype = "datetime64[ns]"
    /\ \A i \in DOMAIN rows : IsNull(rows[i].sampleNUM) \/ IsNull(rows[i].sampleNUM10)

\* C10: nothing carries over from one call to the next. Whatever the client
\* was left with, a call queries the dataset of its own dataset_id argument
\* with the constraints the monitor was constructed with, which no call
\* changes; it fails in _get_dataframe exactly when no row of that dataset
\* matches them or the derivation of the matching rows raises, and else works
\* on the rows of that dataset that match them, which is what the call does
\* on a new monitor.
C10_NoStateCarriesOver ==
    /\ erddap_constraints = (IF IsNull(constraints) THEN <<>> ELSE Get(constraints))
    /\ \A i \in DOMAIN requests :
          /\ requests[i].dataset_id = dataset_id
          /\ requests[i].constraints = erddap_constraints
    /\ pc \notin {"idle", "get_dataframe"} =>
          /\ Len(requests) = 1
          /\ IsNull(df) <=>
                \/ RowsFor(dataset_id, constraints) = <<>>
                \/ DerivationFails(RowsFor(dataset_id, constraints))
          /\ IsNull(df) =>
                /\ shown = <<>>
                /\ result = (IF RowsFor(dataset_id, constraints) = <<>>
                             THEN Exception("HTTPError")
                             ELSE Exception("TypeError"))
          /\ ~IsNull(df) =>
                /\ Len(df) = Len(RowsFor(dataset_id, constraints))
                /\ \A i \in DOMAIN df :
                      LET raw == RowsFor(dataset_id, constraints)[i]
                      IN /\ df[i].time = raw.time
                         /\ df[i].sampleNUM = raw.sampleNUM
                         /\ df[i].sampleNUM10 = raw.sampleNUM10
                         /\ df[i].elMEAN = raw.elMEAN
                         /\ df[i].wireID = (IF raw.wireID = 1 THEN "1" ELSE "2")

\* a call fetched "ds1" on a monitor whose client an earlier call, failing in
\* its fetch, had left on the dataset "ds2"
C10_Witness ==
    /\ pc = "plot_window_variables"
    /\ entry_dataset_id = Val("ds2")
    /\ dataset_id = "ds1"
    /\ ~IsNull(df)
    /\ erddap_dataset_id = None

=============================================================================
